---- MODULE Spec2Model ----
(***************************************************************************)
(* Microblog (src/app.js): an Express application with four routes over    *)
(* one mongoose model, Post {title, content}.                              *)
(*                                                                         *)
(* Every handler is an async function with one await: the code before the  *)
(* await runs when the request arrives, the storage call is then applied   *)
(* by the database as one atomic document operation, and the code after    *)
(* the await (res.status(..).send(..), logger call) runs when the handler  *)
(* is resumed.  A handler is therefore three steps: Receive, StorageCall,  *)
(* Resume.  Handlers of different requests interleave at these steps.      *)
(***************************************************************************)
EXTENDS Integers, Sequences, FiniteSets

\* ------------------------------------------------------------- bounds
\* ObjectIds are 1..MaxId; request handlers in flight are 1..MaxReq.  Ids in
\* routes and bodies are well-formed ObjectIds and title and content are text,
\* so no cast of an id or of a field fails or changes a value.
MaxId == 2
MaxReq == 2

Ids == 1..MaxId
Reqs == 1..MaxReq

\* A body that carries no _id / a route without :postId.
NoId == 0
\* A field the JSON body or the document does not carry.
Absent == "absent"
\* Text values of title and content.
Vals == {"a", "b"}
Field == Vals \cup {Absent}

VARIABLES
  store,     \* the posts collection: a set of documents [id, title, content]
  nextOid,   \* the driver's ObjectId generator (the next id it hands out)
  reqs,      \* reqs[r]: the handler of request r (its closure and its response)
  applied,   \* history: the requests in the order the store applied their calls
  live,      \* history: the ids created with a 201 and not deleted since
  deleted,   \* history: the ids a DELETE answered with 204 has removed so far
  trip       \* history: the progress of a create, list, update, delete sequence

vars == <<store, nextOid, reqs, applied, live, deleted, trip>>

\* The history variables: no handler reads them.
hist == <<applied, live, deleted, trip>>

\* ------------------------------------------------------ the Post model
\* mongoose.model('Post', {title: String, content: String}): a document has the
\* implicit _id and the two optional String paths.
Post == [id : Ids, title : Field, content : Field]

\* req.body as bodyParser.json() hands it over: any subset of _id, title, content.
Bodies == [id : Ids \cup {NoId}, title : Field, content : Field]

EmptyBody == [id |-> NoId, title |-> Absent, content |-> Absent]

StoredIds(s) == {d.id : d \in s}

DocById(s, id) == {d \in s : d.id = id}

\* new Post(req.body): the paths of the body are copied; _id is the body's _id
\* when it carries one, otherwise a freshly generated ObjectId.
NewPost(body, oid) ==
  [id      |-> IF body.id # NoId THEN body.id ELSE oid,
   title   |-> body.title,
   content |-> body.content]

\* ------------------------------------------------- the storage calls
\* Each returns [store, error, result]: the collection afterwards, the rejection
\* ("none" when the promise resolves) and the resolved value as a set of
\* documents (the empty set is null / an empty list).
Reply(s, error, result) == [store |-> s, error |-> error, result |-> result]

\* Mutant of Save: save as an upsert, a duplicate key replaces the stored Post.
SaveUpsert(s, doc, up) ==
  IF ~up THEN Reply(s, "unavailable", {})
  ELSE Reply((s \ DocById(s, doc.id)) \cup {doc}, "none", {doc})

\* post.save(): insertOne; the unique index on _id rejects a duplicate key.
Save(s, doc, up) ==
  IF ~up THEN Reply(s, "unavailable", {})
  ELSE IF doc.id \in StoredIds(s) THEN Reply(s, "rejected", {})
  ELSE Reply(s \cup {doc}, "none", {doc})

\* Post.find(): every document of the collection.
Find(s, up) ==
  IF ~up THEN Reply(s, "unavailable", {}) ELSE Reply(s, "none", s)

\* Mutant of SetFields: the body replaces the document, unsupplied paths are
\* cleared.
SetFieldsReplace(d, body) ==
  [id |-> d.id, title |-> body.title, content |-> body.content]

\* Mutant of SetFields: a supplied path is written only when the document does
\* not carry it yet.
SetFieldsIfUnset(d, body) ==
  [id      |-> d.id,
   title   |-> IF d.title = Absent THEN body.title ELSE d.title,
   content |-> IF d.content = Absent THEN body.content ELSE d.content]

\* The document after {$set: body}: supplied paths replaced, the others kept.
SetFields(d, body) ==
  [id      |-> d.id,
   title   |-> IF body.title # Absent THEN body.title ELSE d.title,
   content |-> IF body.content # Absent THEN body.content ELSE d.content]

\* Mutant of FindByIdAndUpdate: {upsert: true}, a missing id is inserted.
FindByIdAndUpdateUpsert(s, id, body, up) ==
  IF ~up THEN Reply(s, "unavailable", {})
  ELSE IF body.id # NoId /\ body.id # id THEN Reply(s, "rejected", {})
  ELSE IF DocById(s, id) = {}
  THEN LET new == [id |-> id, title |-> body.title, content |-> body.content]
       IN Reply(s \cup {new}, "none", {new})
  ELSE LET new == {SetFields(d, body) : d \in DocById(s, id)}
       IN Reply((s \ DocById(s, id)) \cup new, "none", new)

\* Post.findByIdAndUpdate(id, body, {new: true}): no upsert; null when no
\* document matches; a $set that would change _id is rejected; resolves to the
\* document after the update.
FindByIdAndUpdate(s, id, body, up) ==
  IF ~up THEN Reply(s, "unavailable", {})
  ELSE IF DocById(s, id) = {} THEN Reply(s, "none", {})
  ELSE IF body.id # NoId /\ body.id # id THEN Reply(s, "rejected", {})
  ELSE LET new == {SetFields(d, body) : d \in DocById(s, id)}
       IN Reply((s \ DocById(s, id)) \cup new, "none", new)

\* Mutant of FindByIdAndDelete: the document is found but not removed.
FindByIdAndDeleteKeeps(s, id, up) ==
  IF ~up THEN Reply(s, "unavailable", {})
  ELSE Reply(s, "none", DocById(s, id))

\* Post.findByIdAndDelete(id): removes the matching document and resolves to
\* it, or to null when none matches.
FindByIdAndDelete(s, id, up) ==
  IF ~up THEN Reply(s, "unavailable", {})
  ELSE Reply(s \ DocById(s, id), "none", DocById(s, id))

\* --------------------------------------------------------- handlers
Idle ==
  [pc |-> "idle", op |-> "none", id |-> NoId, body |-> EmptyBody,
   error |-> "none", result |-> {}, status |-> 0, sent |-> {}, logs |-> <<>>]

\* The store's answer to the call the handler of r awaits.
Call(r, up) ==
  LET q == reqs[r] IN
  CASE q.op = "post"   -> Save(store, NewPost(q.body, q.id), up)
    [] q.op = "get"    -> Find(store, up)
    [] q.op = "put"    -> FindByIdAndUpdate(store, q.id, q.body, up)
    [] q.op = "delete" -> FindByIdAndDelete(store, q.id, up)

\* app.post('/posts'), up to the await: new Post(req.body); post.save() issued.
PostReceive(r, bodies) ==
  /\ reqs[r].pc = "idle"
  /\ \E body \in bodies :
       /\ body.id = NoId => nextOid <= MaxId
       /\ reqs' = [reqs EXCEPT ![r] =
                     [Idle EXCEPT !.pc = "await", !.op = "post", !.body = body,
                                  !.id = NewPost(body, nextOid).id]]
       /\ nextOid' = IF body.id = NoId THEN nextOid + 1 ELSE nextOid
  /\ UNCHANGED store

\* app.get('/posts'), up to the await: Post.find() issued.
GetReceive(r) ==
  /\ reqs[r].pc = "idle"
  /\ reqs' = [reqs EXCEPT ![r] = [Idle EXCEPT !.pc = "await", !.op = "get"]]
  /\ UNCHANGED <<store, nextOid>>

\* app.put('/posts/:postId'), up to the await: findByIdAndUpdate issued.
PutReceive(r, ids, bodies) ==
  /\ reqs[r].pc = "idle"
  /\ \E id \in ids, body \in bodies :
       reqs' = [reqs EXCEPT ![r] =
                  [Idle EXCEPT !.pc = "await", !.op = "put", !.id = id,
                               !.body = body]]
  /\ UNCHANGED <<store, nextOid>>

\* app.delete('/posts/:postId'), up to the await: findByIdAndDelete issued.
DeleteReceive(r, ids) ==
  /\ reqs[r].pc = "idle"
  /\ \E id \in ids :
       reqs' = [reqs EXCEPT ![r] =
                  [Idle EXCEPT !.pc = "await", !.op = "delete", !.id = id]]
  /\ UNCHANGED <<store, nextOid>>

\* The await: the store applies the call (or fails: the connection of
\* mongoose.connect is down or the operation breaks) and settles the promise.
StorageCall(r) ==
  /\ reqs[r].pc = "await"
  /\ \E up \in BOOLEAN :
       LET a == Call(r, up) IN
       /\ store' = a.store
       /\ reqs' = [reqs EXCEPT ![r].pc = "resumed", ![r].error = a.error,
                               ![r].result = a.result]
  /\ UNCHANGED nextOid

\* app.post('/posts') after the await.
PostResume(r) ==
  /\ reqs[r].pc = "resumed" /\ reqs[r].op = "post"
  /\ reqs' = [reqs EXCEPT ![r] =
       LET q == reqs[r] IN
       IF q.error = "none"
       THEN [q EXCEPT !.pc = "done", !.status = 201, !.sent = q.result,
                      !.logs = <<"info">>]
       ELSE [q EXCEPT !.pc = "done", !.status = 400, !.logs = <<"error">>]]
  /\ UNCHANGED <<store, nextOid>>

\* app.get('/posts') after the await.
GetResume(r) ==
  /\ reqs[r].pc = "resumed" /\ reqs[r].op = "get"
  /\ reqs' = [reqs EXCEPT ![r] =
       LET q == reqs[r] IN
       IF q.error = "none"
       THEN [q EXCEPT !.pc = "done", !.status = 200, !.sent = q.result,
                      !.logs = <<"info">>]
       ELSE [q EXCEPT !.pc = "done", !.status = 500, !.logs = <<"error">>]]
  /\ UNCHANGED <<store, nextOid>>

\* Mutant of PutResume: the success branch sends 200 without the logger call.
PutResumeUnlogged(r) ==
  /\ reqs[r].pc = "resumed" /\ reqs[r].op = "put"
  /\ reqs' = [reqs EXCEPT ![r] =
       LET q == reqs[r] IN
       IF q.error # "none"
       THEN [q EXCEPT !.pc = "done", !.status = 400, !.logs = <<"error">>]
       ELSE IF q.result = {}
       THEN [q EXCEPT !.pc = "done", !.status = 404]
       ELSE [q EXCEPT !.pc = "done", !.status = 200, !.sent = q.result]]
  /\ UNCHANGED <<store, nextOid>>

\* app.put('/posts/:postId') after the await.
PutResume(r) ==
  /\ reqs[r].pc = "resumed" /\ reqs[r].op = "put"
  /\ reqs' = [reqs EXCEPT ![r] =
       LET q == reqs[r] IN
       IF q.error # "none"
       THEN [q EXCEPT !.pc = "done", !.status = 400, !.logs = <<"error">>]
       ELSE IF q.result = {}
       THEN [q EXCEPT !.pc = "done", !.status = 404]
       ELSE [q EXCEPT !.pc = "done", !.status = 200, !.sent = q.result,
                      !.logs = <<"info">>]]
  /\ UNCHANGED <<store, nextOid>>

\* Mutant of DeleteResume: no `if (!post)` test, null is answered 204 as well.
DeleteResumeUnchecked(r) ==
  /\ reqs[r].pc = "resumed" /\ reqs[r].op = "delete"
  /\ reqs' = [reqs EXCEPT ![r] =
       LET q == reqs[r] IN
       IF q.error # "none"
       THEN [q EXCEPT !.pc = "done", !.status = 500, !.logs = <<"error">>]
       ELSE [q EXCEPT !.pc = "done", !.status = 204, !.logs = <<"info">>]]
  /\ UNCHANGED <<store, nextOid>>

\* app.delete('/posts/:postId') after the await.
DeleteResume(r) ==
  /\ reqs[r].pc = "resumed" /\ reqs[r].op = "delete"
  /\ reqs' = [reqs EXCEPT ![r] =
       LET q == reqs[r] IN
       IF q.error # "none"
       THEN [q EXCEPT !.pc = "done", !.status = 500, !.logs = <<"error">>]
       ELSE IF q.result = {}
       THEN [q EXCEPT !.pc = "done", !.status = 404]
       ELSE [q EXCEPT !.pc = "done", !.status = 204, !.logs = <<"info">>]]
  /\ UNCHANGED <<store, nextOid>>

\* The response is out and the handler has returned: its closure is gone.
Finish(r) ==
  /\ reqs[r].pc = "done"
  /\ reqs' = [reqs EXCEPT ![r] = Idle]
  /\ UNCHANGED <<store, nextOid>>

\* ----------------------------------------------------- specifications
NoTrip == [stage |-> 0, before |-> {}, id |-> NoId]

\* After app.listen: an empty collection, no request in flight.
Init ==
  /\ store = {}
  /\ nextOid = 1
  /\ reqs = [r \in Reqs |-> Idle]
  /\ applied = <<>>
  /\ live = {}
  /\ deleted = {}
  /\ trip = NoTrip

\* Spec: requests of all four routes, handled one after the other.  The store
\* applies one call at a time, so the collection under interleaved handlers
\* goes through the states of some serial order of their calls.
Next ==
  \/ PostReceive(1, Bodies) /\ UNCHANGED hist
  \/ GetReceive(1) /\ UNCHANGED hist
  \/ PutReceive(1, Ids, Bodies) /\ UNCHANGED hist
  \/ DeleteReceive(1, Ids) /\ UNCHANGED hist
  \/ StorageCall(1) /\ UNCHANGED hist
  \/ PostResume(1) /\ UNCHANGED hist
  \/ GetResume(1) /\ UNCHANGED hist
  \/ PutResume(1) /\ UNCHANGED hist
  \/ DeleteResume(1) /\ UNCHANGED hist
  \/ Finish(1) /\ UNCHANGED hist

Spec == Init /\ [][Next]_vars

\* The store has just settled the call of r / the handler of r has just answered.
Applies(r) == reqs[r].pc = "await" /\ reqs'[r].pc = "resumed"
Answers(r) == reqs[r].pc = "resumed" /\ reqs'[r].pc = "done"

\* The call of r the store has just settled was an accepted insert / a delete
\* that found its document.
Created(r) ==
  Applies(r) /\ reqs[r].op = "post" /\ reqs'[r].error = "none"
Removed(r) ==
  Applies(r) /\ reqs[r].op = "delete" /\ reqs'[r].error = "none"
             /\ reqs'[r].result # {}

\* SpecCreated: Spec with the ids created and not deleted since recorded.
RecordLive(r) ==
  live' = IF Created(r) THEN live \cup {reqs[r].id}
          ELSE IF Removed(r) THEN live \ {reqs[r].id}
          ELSE live

NextCreated ==
  \/ PostReceive(1, Bodies) /\ UNCHANGED hist
  \/ GetReceive(1) /\ UNCHANGED hist
  \/ PutReceive(1, Ids, Bodies) /\ UNCHANGED hist
  \/ DeleteReceive(1, Ids) /\ UNCHANGED hist
  \/ StorageCall(1) /\ RecordLive(1) /\ UNCHANGED <<applied, deleted, trip>>
  \/ PostResume(1) /\ UNCHANGED hist
  \/ GetResume(1) /\ UNCHANGED hist
  \/ PutResume(1) /\ UNCHANGED hist
  \/ DeleteResume(1) /\ UNCHANGED hist
  \/ Finish(1) /\ UNCHANGED hist

SpecCreated == Init /\ [][NextCreated]_vars

\* SpecDeleted: Spec with the ids removed so far recorded.
RecordDeleted(r) ==
  deleted' = IF Removed(r) THEN deleted \cup {reqs[r].id} ELSE deleted

NextDeleted ==
  \/ PostReceive(1, Bodies) /\ UNCHANGED hist
  \/ GetReceive(1) /\ UNCHANGED hist
  \/ PutReceive(1, Ids, Bodies) /\ UNCHANGED hist
  \/ DeleteReceive(1, Ids) /\ UNCHANGED hist
  \/ StorageCall(1) /\ RecordDeleted(1) /\ UNCHANGED <<applied, live, trip>>
  \/ PostResume(1) /\ UNCHANGED hist
  \/ GetResume(1) /\ UNCHANGED hist
  \/ PutResume(1) /\ UNCHANGED hist
  \/ DeleteResume(1) /\ UNCHANGED hist
  \/ Finish(1) /\ UNCHANGED hist

SpecDeleted == Init /\ [][NextDeleted]_vars

\* SpecSameId: concurrent PUT and DELETE requests to one stored id, each
\* handler suspended at its await while the others run; `applied` records the
\* order in which the store applied the calls.  Bodies carry title and content.
\* It starts with the first Post created (title "a", any content) stored.
FieldBodies == {b \in Bodies : b.id = NoId}

InitSameId ==
  /\ \E d \in Post :
       /\ d.id = 1 /\ d.title = "a"
       /\ store = {d}
       /\ trip = [stage |-> 0, before |-> {d}, id |-> d.id]
  /\ nextOid = 2
  /\ reqs = [r \in Reqs |-> Idle]
  /\ applied = <<>>
  /\ live = {}
  /\ deleted = {}

NextSameId ==
  \/ \E r \in Reqs : PutReceive(r, {trip.id}, FieldBodies) /\ UNCHANGED hist
  \/ \E r \in Reqs : DeleteReceive(r, {trip.id}) /\ UNCHANGED hist
  \/ \E r \in Reqs : /\ StorageCall(r)
                     /\ applied' = Append(applied, r)
                     /\ UNCHANGED <<live, deleted, trip>>
  \/ \E r \in Reqs : PutResume(r) /\ UNCHANGED hist
  \/ \E r \in Reqs : DeleteResume(r) /\ UNCHANGED hist

SpecSameId == InitSameId /\ [][NextSameId]_vars

\* SpecRoundTrip: from any collection, one client sends create, list, update
\* of the created id, delete of the created id, each after the answer to the
\* one before, and nothing else is sent.  trip.stage counts the requests
\* answered as expected; it is -1 once a storage call was rejected and -2 once
\* a call that resolved was answered with another status.
Collections ==
  UNION {{{[id |-> i, title |-> f[i][1], content |-> f[i][2]] : i \in I} :
            f \in [I -> Field \X Field]} : I \in SUBSET Ids}

Expected == <<201, 200, 200, 204>>

InitRoundTrip ==
  /\ store \in Collections
  /\ nextOid \in 1..(MaxId + 1)
  /\ reqs = [r \in Reqs |-> Idle]
  /\ applied = <<>>
  /\ live = {}
  /\ deleted = {}
  /\ trip = [stage |-> 0, before |-> store, id |-> NoId]

Advance(r) ==
  /\ trip' =
       IF reqs'[r].error # "none" THEN [trip EXCEPT !.stage = -1]
       ELSE IF reqs'[r].status # Expected[trip.stage + 1]
       THEN [trip EXCEPT !.stage = -2]
       ELSE [trip EXCEPT !.stage = @ + 1,
                         !.id = IF reqs[r].op = "post" THEN reqs[r].id ELSE @]
  /\ UNCHANGED <<applied, live, deleted>>

NextRoundTrip ==
  \/ trip.stage = 0 /\ PostReceive(1, Bodies) /\ UNCHANGED hist
  \/ trip.stage = 1 /\ GetReceive(1) /\ UNCHANGED hist
  \/ trip.stage = 2 /\ PutReceive(1, {trip.id}, Bodies) /\ UNCHANGED hist
  \/ trip.stage = 3 /\ DeleteReceive(1, {trip.id}) /\ UNCHANGED hist
  \/ StorageCall(1) /\ UNCHANGED hist
  \/ PostResume(1) /\ Advance(1)
  \/ GetResume(1) /\ Advance(1)
  \/ PutResume(1) /\ Advance(1)
  \/ DeleteResume(1) /\ Advance(1)
  \/ Finish(1) /\ UNCHANGED hist

SpecRoundTrip == InitRoundTrip /\ [][NextRoundTrip]_vars

\* ------------------------------------------------------------ claims
Done(r) == reqs[r].pc = "done"

\* C1 as stated: every handled request, whatever its outcome (success, 404,
\* storage error), has emitted exactly one Logger entry.
C1_OneEntryOnEveryOutcome ==
  \A r \in Reqs : Done(r) => Len(reqs[r].logs) = 1

\* C1, amended: a request answered 404 has emitted no Logger entry; every other
\* handled request has emitted exactly one, at level info when the storage call
\* resolved and at level error when it was rejected.
C1_OneEntryUnlessNotFound ==
  \A r \in Reqs :
    /\ Len(reqs[r].logs) <= 1
    /\ Done(r) =>
         /\ reqs[r].status = 404 => reqs[r].logs = <<>>
         /\ reqs[r].status # 404 /\ reqs[r].error = "none"
              => reqs[r].logs = <<"info">>
         /\ reqs[r].error # "none" => reqs[r].logs = <<"error">>

C1_Witness ==
  \E r \in Reqs :
    /\ Done(r) /\ reqs[r].op = "delete"
    /\ reqs[r].status = 404 /\ reqs[r].logs = <<>>

\* C2: a storage call that fails because the store is unreachable or breaks is
\* answered 500 with one error-level entry, on every route; 400 answers only a
\* rejection of the supplied fields or id.
C2_StorageFailureIs500 ==
  \A r \in Reqs :
    Done(r) =>
      /\ reqs[r].error = "unavailable"
           => reqs[r].status = 500 /\ reqs[r].logs = <<"error">>
      /\ reqs[r].status = 400 => reqs[r].error = "rejected"

\* C3: no two stored Posts have the same id, and no Post enters the collection
\* under an id that a deleted Post held.
C3_IdsUniqueNeverReused ==
  [][/\ \A d1, d2 \in store' : d1.id = d2.id => d1 = d2
     /\ (StoredIds(store') \ StoredIds(store)) \cap deleted = {}]_vars

\* C4: an accepted POST adds exactly one Post, under an id no stored Post holds
\* and with the title and content of the body, leaves the other Posts as they
\* were, and is answered 201 with that Post; a GET answered after it, with no
\* delete of the id in between, is answered 200 with a list holding the id.
C4_CreateAddsOneThenListed ==
  /\ [](\A r \in Reqs :
          Done(r) /\ reqs[r].op = "get" /\ reqs[r].error = "none"
            => reqs[r].status = 200 /\ live \subseteq StoredIds(reqs[r].sent))
  /\ [][\A r \in Reqs :
          /\ Created(r) =>
               \E d \in Post :
                 /\ d.title = reqs[r].body.title
                 /\ d.content = reqs[r].body.content
                 /\ d.id \notin StoredIds(store)
                 /\ store' = store \cup {d}
                 /\ reqs'[r].result = {d}
          /\ Answers(r) /\ reqs[r].op = "post" /\ reqs[r].error = "none"
               => reqs'[r].status = 201 /\ reqs'[r].sent = reqs[r].result]_vars

C4_Witness ==
  \E r \in Reqs :
    /\ Done(r) /\ reqs[r].op = "get" /\ reqs[r].status = 200
    /\ \E d \in reqs[r].sent :
         d.id \in live /\ d.title = "a" /\ d.content = "b"

\* C5: a DELETE of a stored id removes that Post and no other and is answered
\* 204 with an empty body, and no GET answered afterwards lists a Post with
\* that id.
C5_DeletedNeverListedAgain ==
  /\ [](\A r \in Reqs :
          Done(r) /\ reqs[r].op = "get" /\ reqs[r].status = 200
            => StoredIds(reqs[r].sent) \cap deleted = {})
  /\ [][\A r \in Reqs :
          /\ Applies(r) /\ reqs[r].op = "delete" /\ reqs'[r].error = "none"
               /\ reqs[r].id \in StoredIds(store)
               => /\ store' = store \ DocById(store, reqs[r].id)
                  /\ Cardinality(store') = Cardinality(store) - 1
          /\ Answers(r) /\ reqs[r].op = "delete" /\ reqs[r].error = "none"
               /\ reqs[r].result # {}
               => reqs'[r].status = 204 /\ reqs'[r].sent = {}]_vars

\* C6: a PUT or DELETE whose id no stored Post holds leaves the collection as
\* it was (nothing created, modified or removed) and is answered 404.
C6_NotFoundChangesNothing ==
  [][\A r \in Reqs :
       /\ Applies(r) /\ reqs[r].op \in {"put", "delete"}
            /\ reqs[r].id \notin StoredIds(store)
            => /\ store' = store
               /\ reqs'[r].error = "none" => reqs'[r].result = {}
       /\ Answers(r) /\ reqs[r].op \in {"put", "delete"}
            /\ reqs[r].error = "none" /\ reqs[r].result = {}
            => reqs'[r].status = 404 /\ store' = store]_vars

C6_Witness ==
  \E r \in Reqs :
    /\ Done(r) /\ reqs[r].op = "put" /\ reqs[r].status = 404
    /\ reqs[r].body.title # Absent
    /\ store # {} /\ reqs[r].id \notin StoredIds(store)

\* C9: a PUT of a subset of {title, content} to a stored id is answered 200
\* with the Post as stored after the update: same id, supplied fields replaced,
\* the other fields kept; the other Posts and the number of Posts are unchanged.
C9_UpdateMergesSuppliedFields ==
  [][\A r \in Reqs :
       /\ Applies(r) /\ reqs[r].op = "put" /\ reqs[r].body.id = NoId
            /\ reqs'[r].error = "none" /\ reqs[r].id \in StoredIds(store)
            => \E old \in store, new \in store' :
                 /\ old.id = reqs[r].id /\ new.id = reqs[r].id
                 /\ new.title = IF reqs[r].body.title # Absent
                                THEN reqs[r].body.title ELSE old.title
                 /\ new.content = IF reqs[r].body.content # Absent
                                  THEN reqs[r].body.content ELSE old.content
                 /\ store' \ {new} = store \ {old}
                 /\ Cardinality(store') = Cardinality(store)
                 /\ reqs'[r].result = {new}
       /\ Answers(r) /\ reqs[r].op = "put" /\ reqs[r].error = "none"
            /\ reqs[r].result # {}
            => reqs'[r].status = 200 /\ reqs'[r].sent = reqs[r].result]_vars

C9_Witness ==
  \E r \in Reqs :
    /\ Done(r) /\ reqs[r].op = "put" /\ reqs[r].status = 200
    /\ reqs[r].body = [id |-> NoId, title |-> Absent, content |-> "b"]
    /\ reqs[r].sent = {[id |-> reqs[r].id, title |-> "a", content |-> "b"]}
    /\ Cardinality(store) = 2

\* The calls the store has applied: position in the order of application.
Settled(r) == reqs[r].pc \in {"resumed", "done"} /\ reqs[r].error = "none"
Pos(r) == CHOOSE i \in 1..Len(applied) : applied[i] = r
LastOf(W) == CHOOSE r \in W : \A q \in W : Pos(q) <= Pos(r)
Puts == {r \in Reqs : reqs[r].op = "put" /\ Settled(r)}
Deletes == {r \in Reqs : reqs[r].op = "delete" /\ Settled(r)}
Supplying(f) == {r \in Puts : reqs[r].body[f] # Absent}

\* C7: of concurrent PUTs to one stored id, in every order of application,
\* each is answered 200 with a Post of that id, none is rejected, and each
\* field holds the value of the update applied last among those supplying it.
C7_LastWriteWins ==
  \A d \in store :
    /\ d.id = trip.id
    /\ \A r \in Puts :
         /\ \E u \in reqs[r].result : u.id = trip.id
         /\ Done(r) => reqs[r].status = 200 /\ reqs[r].sent = reqs[r].result
    /\ \A f \in {"title", "content"} :
         Supplying(f) # {} => d[f] = reqs[LastOf(Supplying(f))].body[f]

C7_Witness ==
  \E r1, r2 \in Reqs, d \in store :
    /\ Done(r1) /\ Done(r2) /\ Pos(r1) < Pos(r2)
    /\ reqs[r1].op = "put" /\ reqs[r2].op = "put"
    /\ reqs[r1].status = 200 /\ reqs[r2].status = 200
    /\ reqs[r1].body.title = "a" /\ reqs[r2].body.title = "b"
    /\ d.title = "b"

\* C10: of concurrent DELETEs of one stored id, in every order of application,
\* the one applied first is answered 204 and every other 404; a PUT to the id
\* applied after that delete is answered 404 and the Post is not stored again.
C10_OneDeleteWins ==
  /\ \A r \in Deletes :
       /\ reqs[r].result # {} <=> \A q \in Deletes : Pos(r) <= Pos(q)
       /\ Done(r) => reqs[r].status = IF reqs[r].result # {} THEN 204 ELSE 404
  /\ \A r \in Deletes, p \in Puts :
       Pos(r) < Pos(p) =>
         /\ reqs[p].result = {}
         /\ Done(p) => reqs[p].status = 404
  /\ Deletes # {} => store = {}

C10_Witness ==
  \E r1, r2 \in Reqs :
    /\ Done(r1) /\ Done(r2) /\ Pos(r1) < Pos(r2)
    /\ reqs[r1].op = "delete" /\ reqs[r2].op = "delete"
    /\ reqs[r1].status = 204 /\ reqs[r2].status = 404

\* C8: create, list, update of the created id, delete of the created id, with
\* no other request in between, are answered 201, 200, 200, 204 whenever the
\* store resolves the calls, and leave the collection as it was before.
C8_RoundTripRestoresStore ==
  /\ trip.stage # -2
  /\ trip.stage = 4 => store = trip.before

C8_Witness ==
  /\ trip.stage = 4 /\ Done(1) /\ reqs[1].op = "delete"
  /\ reqs[1].status = 204
  /\ Cardinality(trip.before) = 1 /\ store = trip.before

====
